---- MODULE Spec2Model ----
(***************************************************************************)
(* A model of scripts/repo_analyzer.py: the commit classifier, the metrics *)
(* calculator, the recommendation generator and the run of main().         *)
(*                                                                         *)
(* Python str values are sequences of one-character strings, so that       *)
(* lower(), startswith(), `in`, split(), strip() and replace() are         *)
(* computed character by character.  Python floats that the code compares  *)
(* with a threshold are kept as exact fractions <<numerator, denominator>>;*)
(* for the commit totals reachable here the float comparison and the exact *)
(* comparison agree.                                                       *)
(***************************************************************************)
EXTENDS Integers, Sequences, FiniteSets, TLC

VARIABLES
    pc,                 \* control point of the run / of the function under call
    repository,         \* args.repository
    repo_path,          \* RepositoryAnalyzer.repo_path
    temp_dir,           \* RepositoryAnalyzer.temp_dir
    fs,                 \* the paths that exist on disk
    git_failed,         \* the "Git command failed: ..." lines printed so far
    candidate_idx,      \* analyze_branches: position in main_candidates
    branches_output,    \* analyze_branches: lines of the branch listing
    line_idx,           \* analyze_branches: position in branches_output
    branch_info,        \* List[BranchInfo]
    main_branch,        \* detected main branch
    commits_output,     \* analyze_commit_patterns: output of git log
    commit_patterns,    \* List[CommitPattern]
    developer_activity, \* List[DeveloperActivity]
    metrics,            \* the tuple returned by calculate_metrics
    recommendations,    \* the list returned by generate_recommendations
    raised,             \* the exception propagating, or "None"
    exit_code,          \* process exit status, -1 while running
    report              \* the report file written by main, or "None"

vars == <<pc, repository, repo_path, temp_dir, fs, git_failed, candidate_idx,
          branches_output, line_idx, branch_info, main_branch, commits_output,
          commit_patterns, developer_activity, metrics, recommendations,
          raised, exit_code, report>>

----------------------------------------------------------------------------
(* Python str operations *)

UpperChars == <<"A","B","C","D","E","F","G","H","I","J","K","L","M",
                "N","O","P","Q","R","S","T","U","V","W","X","Y","Z">>
LowerChars == <<"a","b","c","d","e","f","g","h","i","j","k","l","m",
                "n","o","p","q","r","s","t","u","v","w","x","y","z">>

\* str.lower() of one character
LowerChar(c) ==
    IF \E i \in 1..Len(UpperChars) : UpperChars[i] = c
    THEN LowerChars[CHOOSE i \in 1..Len(UpperChars) : UpperChars[i] = c]
    ELSE c

\* str.lower()
lower(s) == [i \in 1..Len(s) |-> LowerChar(s[i])]

\* str.startswith(prefix)
startswith(s, prefix) ==
    /\ Len(s) >= Len(prefix)
    /\ SubSeq(s, 1, Len(prefix)) = prefix

\* `sub in s` for strings
contains(s, sub) ==
    \E i \in 0..(Len(s) - Len(sub)) : SubSeq(s, i + 1, i + Len(sub)) = sub

\* position of the first occurrence of the one-character separator, 0 if none
RECURSIVE find(_, _, _)
find(s, sep, from) ==
    IF from > Len(s) THEN 0
    ELSE IF s[from] = sep THEN from
    ELSE find(s, sep, from + 1)

\* str.split(sep) for a one-character separator: "" gives [""]
RECURSIVE split(_, _)
split(s, sep) ==
    LET i == find(s, sep, 1) IN
    IF i = 0 THEN <<s>>
    ELSE <<SubSeq(s, 1, i - 1)>> \o split(SubSeq(s, i + 1, Len(s)), sep)

Whitespace == {" ", "\n", "\t", "\r"}

\* str.strip()
RECURSIVE strip(_)
strip(s) ==
    IF s = <<>> THEN s
    ELSE IF s[1] \in Whitespace THEN strip(Tail(s))
    ELSE IF s[Len(s)] \in Whitespace THEN strip(SubSeq(s, 1, Len(s) - 1))
    ELSE s

\* str.replace(old, '')
RECURSIVE remove(_, _)
remove(s, old) ==
    IF s = <<>> THEN s
    ELSE IF startswith(s, old) THEN remove(SubSeq(s, Len(old) + 1, Len(s)), old)
    ELSE <<s[1]>> \o remove(Tail(s), old)

\* '\n'.join(lines)
RECURSIVE join(_)
join(lines) ==
    IF lines = <<>> THEN <<>>
    ELSE IF Len(lines) = 1 THEN lines[1]
    ELSE lines[1] \o <<"\n">> \o join(Tail(lines))

\* sum(f[i] for i in 1..Len(f))
RECURSIVE SumSeq(_)
SumSeq(f) == IF f = <<>> THEN 0 ELSE f[1] + SumSeq(Tail(f))

None == <<"<None>">>

\* the metrics tuple before calculate_metrics has returned
NoMetrics == [assigned |-> FALSE]

----------------------------------------------------------------------------
(* analyze_commit_patterns *)

\* the literals of the if/elif cascade
s_feat      == <<"f","e","a","t">>
s_fix       == <<"f","i","x">>
s_hotfix    == <<"h","o","t","f","i","x">>
s_merge     == <<"m","e","r","g","e">>
s_chore     == <<"c","h","o","r","e">>
s_docs      == <<"d","o","c","s">>
s_test      == <<"t","e","s","t">>
s_refactor  == <<"r","e","f","a","c","t","o","r">>
s_wip       == <<"w","i","p">>
s_temp      == <<"t","e","m","p">>
s_temporary == <<"t","e","m","p","o","r","a","r","y">>

\* the keys of the patterns dictionary
k_feat      == <<"f","e","a","t",":">>
k_fix       == <<"f","i","x",":">>
k_hotfix    == <<"h","o","t","f","i","x",":">>
k_merge     == <<"m","e","r","g","e",":">>
k_chore     == <<"c","h","o","r","e",":">>
k_docs      == <<"d","o","c","s",":">>
k_test      == <<"t","e","s","t",":">>
k_refactor  == <<"r","e","f","a","c","t","o","r",":">>
k_WIP       == <<"W","I","P">>
k_temporary == <<"t","e","m","p","o","r","a","r","y">>
k_other     == <<"o","t","h","e","r">>

Keys == {k_feat, k_fix, k_hotfix, k_merge, k_chore, k_docs, k_test,
         k_refactor, k_WIP, k_temporary, k_other}

\* the cascade with the substring test for wip moved before the prefix tests
classify_wip_first(commit_msg) ==
    LET msg_lower == lower(commit_msg) IN
    IF contains(msg_lower, s_wip) THEN k_WIP
    ELSE IF startswith(msg_lower, s_feat) THEN k_feat
    ELSE IF startswith(msg_lower, s_fix) THEN k_fix
    ELSE IF startswith(msg_lower, s_hotfix) THEN k_hotfix
    ELSE IF startswith(msg_lower, s_merge) THEN k_merge
    ELSE IF startswith(msg_lower, s_chore) THEN k_chore
    ELSE IF startswith(msg_lower, s_docs) THEN k_docs
    ELSE IF startswith(msg_lower, s_test) THEN k_test
    ELSE IF startswith(msg_lower, s_refactor) THEN k_refactor
    ELSE IF contains(msg_lower, s_temp) \/ contains(msg_lower, s_temporary)
         THEN k_temporary
    ELSE k_other

\* the if/elif cascade on one commit message: the key that is incremented
classify(commit_msg) ==
    LET msg_lower == lower(commit_msg) IN
    IF startswith(msg_lower, s_feat) THEN k_feat
    ELSE IF startswith(msg_lower, s_fix) THEN k_fix
    ELSE IF startswith(msg_lower, s_hotfix) THEN k_hotfix
    ELSE IF startswith(msg_lower, s_merge) THEN k_merge
    ELSE IF startswith(msg_lower, s_chore) THEN k_chore
    ELSE IF startswith(msg_lower, s_docs) THEN k_docs
    ELSE IF startswith(msg_lower, s_test) THEN k_test
    ELSE IF startswith(msg_lower, s_refactor) THEN k_refactor
    ELSE IF contains(msg_lower, s_wip) THEN k_WIP
    ELSE IF contains(msg_lower, s_temp) \/ contains(msg_lower, s_temporary)
         THEN k_temporary
    ELSE k_other

\* patterns[key] += 1 on a defaultdict(int) kept in insertion order
increment(patterns, key) ==
    IF \E i \in 1..Len(patterns) : patterns[i].pattern = key
    THEN [i \in 1..Len(patterns) |->
             IF patterns[i].pattern = key
             THEN [patterns[i] EXCEPT !.count = @ + 1]
             ELSE patterns[i]]
    ELSE Append(patterns, [pattern |-> key, count |-> 1])

\* the for loop with total_commits incremented before the test for an empty line
RECURSIVE count_patterns_counting_blank(_, _, _)
count_patterns_counting_blank(lines, patterns, total_commits) ==
    IF lines = <<>> THEN <<patterns, total_commits>>
    ELSE IF lines[1] = <<>>
         THEN count_patterns_counting_blank(Tail(lines), patterns, total_commits + 1)
    ELSE count_patterns_counting_blank(Tail(lines),
             increment(patterns, classify(lines[1])), total_commits + 1)

\* the for loop over commits_output.split('\n'): <<patterns, total_commits>>
RECURSIVE count_patterns(_, _, _)
count_patterns(lines, patterns, total_commits) ==
    IF lines = <<>> THEN <<patterns, total_commits>>
    ELSE IF lines[1] = <<>>
         THEN count_patterns(Tail(lines), patterns, total_commits)
    ELSE count_patterns(Tail(lines), increment(patterns, classify(lines[1])),
                        total_commits + 1)

\* CommitPattern(pattern, count, percentage); the float count / total * 100
\* is the fraction <<count * 100, total>>, and 0 is <<0, 1>>
CommitPattern(pattern, count, total_commits) ==
    [pattern    |-> pattern,
     count      |-> count,
     percentage |-> IF total_commits > 0 THEN <<count * 100, total_commits>>
                    ELSE <<0, 1>>]

\* insertion of x into a list sorted by count descending, after its equals
RECURSIVE insert_sorted(_, _)
insert_sorted(sorted, x) ==
    IF sorted = <<>> THEN <<x>>
    ELSE IF sorted[1].count >= x.count
         THEN <<sorted[1]>> \o insert_sorted(Tail(sorted), x)
    ELSE <<x>> \o sorted

\* sorted(commit_patterns, key=lambda x: x.count, reverse=True): stable
RECURSIVE sorted_by_count(_)
sorted_by_count(list) ==
    IF list = <<>> THEN <<>>
    ELSE insert_sorted(sorted_by_count(SubSeq(list, 1, Len(list) - 1)),
                       list[Len(list)])

\* analyze_commit_patterns, given the output of git log
analyze_commit_patterns(output) ==
    LET counted == count_patterns(split(output, "\n"), <<>>, 0)
        patterns == counted[1]
        total_commits == counted[2]
    IN sorted_by_count([i \in 1..Len(patterns) |->
           CommitPattern(patterns[i].pattern, patterns[i].count, total_commits)])

----------------------------------------------------------------------------
(* calculate_metrics *)

\* BranchInfo(name, last_commit_date, commit_count, author_count, is_main)
BranchInfo(name, last_commit_date, commit_count, author_count, is_main) ==
    [name             |-> name,
     last_commit_date |-> last_commit_date,
     commit_count     |-> commit_count,
     author_count     |-> author_count,
     is_protected     |-> FALSE,
     is_main          |-> is_main]

\* the list ci_cd_files
ci_cd_files == <<
    <<".","g","i","t","h","u","b","/","w","o","r","k","f","l","o","w","s">>,
    <<".","g","i","t","l","a","b","-","c","i",".","y","m","l">>,
    <<"J","e","n","k","i","n","s","f","i","l","e">>,
    <<"a","z","u","r","e","-","p","i","p","e","l","i","n","e","s",".","y","m","l">>,
    <<"c","i","r","c","l","e",".","y","m","l">>,
    <<".","t","r","a","v","i","s",".","y","m","l">> >>

\* os.path.join(a, b) for a relative b
path_join(a, b) ==
    IF a = <<>> THEN b
    ELSE IF a[Len(a)] = "/" THEN a \o b
    ELSE a \o <<"/">> \o b

\* sum(p.count for p in commit_patterns if sub in p.pattern.lower())
count_containing(patterns, sub) ==
    SumSeq([i \in 1..Len(patterns) |->
               IF contains(lower(patterns[i].pattern), sub)
               THEN patterns[i].count ELSE 0])

\* sum(p.count for p in commit_patterns)
total_count(patterns) == SumSeq([i \in 1..Len(patterns) |-> patterns[i].count])

\* part / total * 100 without the test of total: the quotient by 0 is <<0, 0>>
frequency_unguarded(part, total) == <<part * 100, total>>

\* (part / total * 100) if total > 0 else 0, as a fraction
frequency(part, total) == IF total > 0 THEN <<part * 100, total>> ELSE <<0, 1>>

\* comparisons of a fraction with an integer threshold
Gt(f, n) == f[1] > n * f[2]
Lt(f, n) == f[1] < n * f[2]

\* the loop with os.path.exists(file_path): the path is not joined to repo_path
RECURSIVE ci_cd_loop_unjoined(_, _, _)
ci_cd_loop_unjoined(files, path, disk) ==
    IF files = <<>> THEN 0
    ELSE (IF files[1] \in disk THEN 20 ELSE 0)
         + ci_cd_loop_unjoined(Tail(files), path, disk)

\* the loop over ci_cd_files: 20 for each path that exists under repo_path
RECURSIVE ci_cd_loop(_, _, _)
ci_cd_loop(files, path, disk) ==
    IF files = <<>> THEN 0
    ELSE (IF path_join(path, files[1]) \in disk THEN 20 ELSE 0)
         + ci_cd_loop(Tail(files), path, disk)

\* len([b for b in branch_info if b.commit_count > n])
count_longer(branches, n) ==
    Len(SelectSeq(branches, LAMBDA b : b.commit_count > n))

\* Factor 1: number of long-lived branches
long_lived_factor(branches) ==
    LET long_lived_branches == count_longer(branches, 10) IN
    IF long_lived_branches <= 2 THEN 30
    ELSE IF long_lived_branches <= 5 THEN 20
    ELSE IF long_lived_branches <= 10 THEN 10
    ELSE 0

\* Factor 2 with the boundaries moved into the upper bucket
merge_factor_inclusive(merge_frequency) ==
    IF ~Lt(merge_frequency, 20) THEN 25
    ELSE IF ~Lt(merge_frequency, 10) THEN 15
    ELSE IF ~Lt(merge_frequency, 5) THEN 10
    ELSE 0

\* Factor 2: merge frequency
merge_factor(merge_frequency) ==
    IF Gt(merge_frequency, 20) THEN 25
    ELSE IF Gt(merge_frequency, 10) THEN 15
    ELSE IF Gt(merge_frequency, 5) THEN 10
    ELSE 0

\* Factor 3: hotfix frequency
hotfix_factor(hotfix_frequency) ==
    IF Lt(hotfix_frequency, 5) THEN 25
    ELSE IF Lt(hotfix_frequency, 10) THEN 15
    ELSE IF Lt(hotfix_frequency, 20) THEN 10
    ELSE 0

\* Factor 4: branch naming conventions
naming_factor(branches) ==
    LET feature_branches ==
            Len(SelectSeq(branches, LAMBDA b :
                \/ startswith(b.name, <<"f","e","a","t","u","r","e","/">>)
                \/ startswith(b.name, <<"f","e","a","t","/">>)))
    IN IF feature_branches > 0 THEN 20 ELSE 0

\* calculate_metrics(branch_info, commit_patterns) on self.repo_path and the disk
calculate_metrics(branches, patterns, path, disk) ==
    LET merge_commits    == count_containing(patterns, s_merge)
        total_commits    == total_count(patterns)
        merge_frequency  == frequency(merge_commits, total_commits)
        hotfix_commits   == count_containing(patterns, s_hotfix)
        hotfix_frequency == frequency(hotfix_commits, total_commits)
    IN [branch_lifespan_avg |-> 0,
        merge_frequency     |-> merge_frequency,
        hotfix_frequency    |-> hotfix_frequency,
        ci_cd_score         |-> ci_cd_loop(ci_cd_files, path, disk),
        trunk_based_score   |-> long_lived_factor(branches)
                                + merge_factor(merge_frequency)
                                + hotfix_factor(hotfix_frequency)
                                + naming_factor(branches)]

----------------------------------------------------------------------------
(* generate_recommendations *)

RecTrunk == <<
    "Implement trunk-based development: Reduce long-lived branches and increase merge frequency",
    "Establish branch naming conventions: Use feature/, hotfix/, bugfix/ prefixes",
    "Implement short-lived feature branches: Keep branches active for less than 2-3 days" >>

RecCiCd == <<
    "Implement CI/CD pipeline: Add automated testing, building, and deployment",
    "Add automated testing: Unit tests, integration tests, and code quality checks",
    "Implement branch protection: Require PR reviews and status checks" >>

RecConventional == <<
    "Adopt conventional commit messages: Use feat:, fix:, chore:, docs:, test:, refactor: prefixes" >>

RecCleanup == <<
    "Clean up long-lived branches: Merge or delete branches with >20 commits" >>

RecAlways == <<
    "Implement pair programming: Reduce single-developer branches",
    "Increase code review frequency: Require reviews for all changes",
    "Add development metrics: Track cycle time, lead time, and deployment frequency" >>

\* the list of conventional prefixes
conventional_keys == {k_feat, k_fix, k_chore, k_docs, k_test, k_refactor}

\* sum(p.count for p in commit_patterns if p.pattern in [...])
count_conventional(patterns) ==
    SumSeq([i \in 1..Len(patterns) |->
               IF patterns[i].pattern \in conventional_keys
               THEN patterns[i].count ELSE 0])

\* the branch management rule with the threshold of 3 included
cleanup_rule_inclusive(branches) ==
    LET long_lived_branches ==
            SelectSeq(branches, LAMBDA b : b.commit_count > 20 /\ ~b.is_main)
    IN IF Len(long_lived_branches) >= 3 THEN RecCleanup ELSE <<>>

\* the branch management rule
cleanup_rule(branches) ==
    LET long_lived_branches ==
            SelectSeq(branches, LAMBDA b : b.commit_count > 20 /\ ~b.is_main)
    IN IF Len(long_lived_branches) > 3 THEN RecCleanup ELSE <<>>

\* generate_recommendations: the list returned, or the exception raised by
\* conventional_commits / total_commits when total_commits is 0
generate_recommendations(branches, patterns, ci_cd_score, trunk_based_score) ==
    LET conventional_commits == count_conventional(patterns)
        total_commits == total_count(patterns)
        first == (IF trunk_based_score < 50 THEN RecTrunk ELSE <<>>)
                 \o (IF ci_cd_score < 60 THEN RecCiCd ELSE <<>>)
    IN IF total_commits = 0
       THEN [raised |-> "ZeroDivisionError", value |-> None]
       ELSE [raised |-> "None",
             value  |-> first
                        \o (IF conventional_commits * 10 < 7 * total_commits
                            THEN RecConventional ELSE <<>>)
                        \o cleanup_rule(branches)
                        \o RecAlways]

----------------------------------------------------------------------------
(* Bounds and input sets *)

MaxMsgs == 2
MaxLong == 4
MaxMid  == 7
MaxPart == 3

\* commit subject lines given to the classifier
Messages == {
    <<>>,
    <<"f","e","a","t",":"," ","a","d","d"," ","x">>,
    <<"f","i","x",":"," ","b","u","g">>,
    <<"m","e","r","g","e"," ","b","r","a","n","c","h">>,
    <<"h","o","t","f","i","x",":"," ","u","r","g","e","n","t">>,
    <<"r","a","n","d","o","m"," ","n","o","t","e">>,
    <<"F","i","x"," ","W","I","P">>,
    <<"m","y"," ","w","i","p">>,
    <<"a","t","t","e","m","p","t">>,
    <<"M","e","r","g","e"," ","t","e","m","p">>,
    <<"c","h","o","r","e">>,
    <<"D","o","c","s">>,
    <<"t","e","s","t","s">>,
    <<"r","e","f","a","c","t","o","r"," ","x">>,
    <<"a"," ","f","e","a","t">>,
    <<"T","E","M","P","O","R","A","R","Y">>,
    <<"f","i">> }

\* the five messages of the classifier example
ExampleMessages == <<
    <<"f","e","a","t",":"," ","a","d","d"," ","x">>,
    <<"f","i","x",":"," ","b","u","g">>,
    <<"m","e","r","g","e"," ","b","r","a","n","c","h">>,
    <<"h","o","t","f","i","x",":"," ","u","r","g","e","n","t">>,
    <<"r","a","n","d","o","m"," ","n","o","t","e">> >>

MessageLists ==
    UNION {[1..n -> Messages] : n \in 0..MaxMsgs} \cup {ExampleMessages}

ClassifyInputs == {join(l) : l \in MessageLists}

\* n copies of x
Copies(n, x) == [i \in 1..n |-> x]

SomeDate == <<"2","0","2","4">>
RepoDir  == <<"/","r","e","p","o">>

\* a branch list: an optional main branch with mainCount commits (-1: no
\* main branch), nLong branches of 21 commits, nMid branches of 20 commits
\* and an optional extra branch of 10 commits with a name of nameKind
ExtraNames == <<
    <<"f","e","a","t","u","r","e","/","a">>,
    <<"f","e","a","t","/","b">>,
    <<"f","e","a","t","u","r","e","x">> >>

BranchList(mainCount, nLong, nMid, nameKind) ==
    (IF mainCount < 0 THEN <<>>
     ELSE <<BranchInfo(<<"m","a","i","n">>, SomeDate, mainCount, 0, TRUE)>>)
    \o Copies(nLong, BranchInfo(<<"r","e","l","e","a","s","e">>, SomeDate, 21, 2, FALSE))
    \o Copies(nMid, BranchInfo(<<"d","e","v">>, SomeDate, 20, 1, FALSE))
    \o (IF nameKind = 0 THEN <<>>
        ELSE <<BranchInfo(ExtraNames[nameKind], SomeDate, 10, 1, FALSE)>>)

MainCounts == {-1, 0, 11, 21}

BranchInputs ==
    {BranchList(m, l, d, k) : m \in MainCounts, l \in 0..MaxLong,
                              d \in 0..MaxMid, k \in 0..Len(ExtraNames)}

FewBranchInputs ==
    {BranchList(m, l, d, 0) : m \in {-1, 21}, l \in 0..MaxLong, d \in 0..1}

\* the commit patterns of a history with the given count for each key, as
\* analyze_commit_patterns builds them
PatternsOf(keys, counts) ==
    LET idx == SelectSeq([i \in 1..Len(keys) |-> i], LAMBDA i : counts[i] > 0)
        total == SumSeq(counts)
    IN sorted_by_count([j \in 1..Len(idx) |->
           CommitPattern(keys[idx[j]], counts[idx[j]], total)])

Totals == {4, 5, 10, 20}

\* merge and hotfix commits among 4, 5, 10 or 20 commits, or no commit at all
MetricPatternInputs ==
    {PatternsOf(<<k_merge, k_hotfix, k_other>>, <<m, h, t - m - h>>) :
        <<m, h, t>> \in {x \in (0..MaxPart) \X (0..(MaxPart + 2)) \X Totals :
                            x[1] + x[2] <= x[3]}}
    \cup {<<>>}

\* c conventional commits among 10 commits, or no commit at all
RecPatternInputs ==
    {PatternsOf(<<kc, ko>>, <<c, 10 - c>>) :
        kc \in {k_feat, k_chore, k_refactor}, ko \in {k_hotfix, k_other},
        c \in {0, 6, 7, 8, 10}}
    \cup {PatternsOf(<<k_feat, k_fix, k_docs, k_test, k_merge, k_WIP, k_temporary>>,
                     <<2, 2, 2, 1, 1, 1, 1>>)}
    \cup {<<>>}

CiPaths == {path_join(RepoDir, ci_cd_files[i]) : i \in 1..Len(ci_cd_files)}

\* paths that are no indicator in the repository root: an indicator name in a
\* subdirectory, and one relative to the working directory of the process
OtherPaths == {
    <<"/","r","e","p","o","/","s","u","b","/","J","e","n","k","i","n","s","f","i","l","e">>,
    <<".","t","r","a","v","i","s",".","y","m","l">> }

ScoreSamples == {0, 30, 49, 50, 59, 60, 100, 120}

\* a metrics tuple with the two scores given
Scores(ci_cd_score, trunk_based_score) ==
    [branch_lifespan_avg |-> 0, merge_frequency |-> <<0, 1>>,
     hotfix_frequency |-> <<0, 1>>, ci_cd_score |-> ci_cd_score,
     trunk_based_score |-> trunk_based_score]

----------------------------------------------------------------------------
(* The three functions called on their own *)

\* what a call of one function leaves alone
RunIdle ==
    /\ repository = None
    /\ temp_dir = None
    /\ git_failed = {}
    /\ candidate_idx = 0
    /\ branches_output = <<>>
    /\ line_idx = 0
    /\ main_branch = <<"m","a","i","n">>
    /\ developer_activity = <<>>
    /\ exit_code = -1
    /\ report = "None"

InitClassify ==
    /\ RunIdle
    /\ pc = "call_analyze_commit_patterns"
    /\ commits_output \in ClassifyInputs
    /\ repo_path = RepoDir
    /\ fs = {}
    /\ branch_info = <<>>
    /\ commit_patterns = None
    /\ metrics = NoMetrics
    /\ recommendations = None
    /\ raised = "None"

CallAnalyzeCommitPatterns ==
    /\ pc = "call_analyze_commit_patterns"
    /\ commit_patterns' = analyze_commit_patterns(commits_output)
    /\ pc' = "returned"
    /\ UNCHANGED <<repository, repo_path, temp_dir, fs, git_failed, candidate_idx,
                   branches_output, line_idx, branch_info, main_branch,
                   commits_output, developer_activity, metrics, recommendations,
                   raised, exit_code, report>>

NextClassify == CallAnalyzeCommitPatterns

SpecClassify == InitClassify /\ [][NextClassify]_vars

InitMetrics ==
    /\ RunIdle
    /\ pc = "call_calculate_metrics"
    /\ commits_output = <<>>
    /\ repo_path = RepoDir
    /\ \/ /\ branch_info \in BranchInputs
          /\ commit_patterns \in MetricPatternInputs
          /\ fs \in {{}, CiPaths}
       \/ /\ branch_info \in {BranchList(0, 0, 0, 0), BranchList(0, 1, 0, 1)}
          /\ commit_patterns \in {<<>>, PatternsOf(<<k_merge, k_other>>, <<1, 3>>)}
          /\ fs \in {present \cup other : present \in SUBSET CiPaths,
                                            other \in {{}, OtherPaths}}
    /\ metrics = NoMetrics
    /\ recommendations = None
    /\ raised = "None"

CallCalculateMetrics ==
    /\ pc = "call_calculate_metrics"
    /\ metrics' = calculate_metrics(branch_info, commit_patterns, repo_path, fs)
    /\ pc' = "returned"
    /\ UNCHANGED <<repository, repo_path, temp_dir, fs, git_failed, candidate_idx,
                   branches_output, line_idx, branch_info, main_branch,
                   commits_output, commit_patterns, developer_activity,
                   recommendations, raised, exit_code, report>>

NextMetrics == CallCalculateMetrics

SpecMetrics == InitMetrics /\ [][NextMetrics]_vars

InitRecs ==
    /\ RunIdle
    /\ pc = "call_generate_recommendations"
    /\ commits_output = <<>>
    /\ repo_path = RepoDir
    /\ fs = {}
    /\ branch_info \in FewBranchInputs
    /\ commit_patterns \in RecPatternInputs
    /\ metrics \in {Scores(c, t) : c \in ScoreSamples, t \in ScoreSamples}
    /\ recommendations = None
    /\ raised = "None"

CallGenerateRecommendations ==
    /\ pc = "call_generate_recommendations"
    /\ LET r == generate_recommendations(branch_info, commit_patterns,
                    metrics.ci_cd_score, metrics.trunk_based_score)
       IN /\ recommendations' = r.value
          /\ raised' = r.raised
    /\ pc' = "returned"
    /\ UNCHANGED <<repository, repo_path, temp_dir, fs, git_failed, candidate_idx,
                   branches_output, line_idx, branch_info, main_branch,
                   commits_output, commit_patterns, developer_activity, metrics,
                   exit_code, report>>

NextRecs == CallGenerateRecommendations

SpecRecs == InitRecs /\ [][NextRecs]_vars

\* the classifier or the metrics calculator called on its own
InitPatternsOrMetrics == InitClassify \/ InitMetrics

NextPatternsOrMetrics == CallAnalyzeCommitPatterns \/ CallCalculateMetrics

SpecPatternsOrMetrics == InitPatternsOrMetrics /\ [][NextPatternsOrMetrics]_vars

----------------------------------------------------------------------------
(* get_git_command and the extraction steps *)

\* a finished git subprocess: its return code and its standard output
Completed(returncode, stdout) == [returncode |-> returncode, stdout |-> stdout]

Failed == Completed(128, <<>>)

\* get_git_command without the except clause: the error propagates
get_git_command_unchecked(command, run) ==
    IF run.returncode # 0
    THEN [out |-> <<>>, printed |-> {command}, raised |-> "CalledProcessError"]
    ELSE [out |-> strip(run.stdout), printed |-> {}, raised |-> "None"]

\* get_git_command: the stripped output, or "" and a printed line when the
\* command exits with a non-zero status
get_git_command(command, run) ==
    IF run.returncode # 0
    THEN [out |-> <<>>, printed |-> {command}, raised |-> "None"]
    ELSE [out |-> strip(run.stdout), printed |-> {}, raised |-> "None"]

\* the first exception raised among a sequence of calls, "None" if none
FirstRaised(calls) ==
    LET bad == {i \in 1..Len(calls) : calls[i].raised # "None"} IN
    IF bad = {} THEN "None"
    ELSE calls[CHOOSE i \in bad : \A j \in bad : i <= j].raised

\* the lines printed by the calls made before (and including) the first raise
PrintedBy(calls) ==
    LET bad == {i \in 1..Len(calls) : calls[i].raised # "None"}
        last == IF bad = {} THEN Len(calls)
                ELSE CHOOSE i \in bad : \A j \in bad : i <= j
    IN UNION {calls[i].printed : i \in 1..last}

main_candidates == <<<<"m","a","i","n">>, <<"m","a","s","t","e","r">>, <<"t","r","u","n","k">>, <<"d","e","v","e","l","o","p">>>>

\* len(set(authors_output.split('\n'))) if authors_output else 0
author_count_of(authors_output) ==
    IF authors_output = <<>> THEN 0
    ELSE LET names == split(authors_output, "\n") IN
         Cardinality({names[i] : i \in 1..Len(names)})

\* int(s) for a string of decimal digits, 0 for the empty string
Digits == <<"0","1","2","3","4","5","6","7","8","9">>

RECURSIVE to_int(_)
to_int(s) ==
    IF s = <<>> THEN 0
    ELSE 10 * to_int(SubSeq(s, 1, Len(s) - 1))
         + (CHOOSE d \in 0..9 : Digits[d + 1] = s[Len(s)])

\* the iteration with commit_count read as the number that rev-list prints
branch_of_line_counting(line, main, count_output, authors_output) ==
    IF line = <<>> \/ contains(line, <<"H","E","A","D">>) THEN <<>>
    ELSE LET parts == split(line, "|") IN
         IF Len(parts) >= 3
         THEN LET branch_name == remove(parts[1], <<"o","r","i","g","i","n","/">>) IN
              <<BranchInfo(branch_name, parts[2],
                           to_int(count_output),
                           author_count_of(authors_output),
                           branch_name = main)>>
         ELSE <<>>

\* one iteration of the loop over branches_output.split('\n'), given the
\* outputs of rev-list and log: the BranchInfo appended, or nothing
branch_of_line(line, main, count_output, authors_output) ==
    IF line = <<>> \/ contains(line, <<"H","E","A","D">>) THEN <<>>
    ELSE LET parts == split(line, "|") IN
         IF Len(parts) >= 3
         THEN LET branch_name == remove(parts[1], <<"o","r","i","g","i","n","/">>) IN
              <<BranchInfo(branch_name, parts[2],
                           Len(split(count_output, "\n")),
                           author_count_of(authors_output),
                           branch_name = main)>>
         ELSE <<>>

\* whether the iteration on this line runs the rev-list and log commands
line_runs_git(line) ==
    /\ line # <<>>
    /\ ~contains(line, <<"H","E","A","D">>)
    /\ Len(split(line, "|")) >= 3

(* analyze_developer_activity *)

\* author_stats[author], created on first access
touch(stats, author) ==
    IF \E i \in 1..Len(stats) : stats[i].author = author THEN stats
    ELSE Append(stats, [author |-> author, commits |-> 0, branches |-> {},
                        last_activity |-> <<>>])

\* the loop over the author lines: commits += 1
RECURSIVE count_authors(_, _)
count_authors(lines, stats) ==
    IF lines = <<>> THEN stats
    ELSE LET parts == split(lines[1], "|") IN
         IF lines[1] # <<>> /\ Len(parts) >= 2
         THEN LET st == touch(stats, parts[1]) IN
              count_authors(Tail(lines),
                  [i \in 1..Len(st) |->
                      IF st[i].author = parts[1]
                      THEN [st[i] EXCEPT !.commits = @ + 1] ELSE st[i]])
         ELSE count_authors(Tail(lines), stats)

\* the loop over the for-each-ref lines: branches.add(branch_name)
RECURSIVE add_branches(_, _)
add_branches(lines, stats) ==
    IF lines = <<>> THEN stats
    ELSE LET parts == split(lines[1], "|") IN
         IF lines[1] # <<>> /\ Len(parts) >= 2
         THEN LET st == touch(stats, parts[2]) IN
              add_branches(Tail(lines),
                  [i \in 1..Len(st) |->
                      IF st[i].author = parts[2]
                      THEN [st[i] EXCEPT !.branches = @ \cup {parts[1]}] ELSE st[i]])
         ELSE add_branches(Tail(lines), stats)

\* the last activity date of the author of the newest commit
set_last_activity(output, stats) ==
    LET parts == split(output, "|") IN
    IF output # <<>> /\ Len(parts) >= 2
    THEN LET st == touch(stats, parts[1]) IN
         [i \in 1..Len(st) |->
             IF st[i].author = parts[1]
             THEN [st[i] EXCEPT !.last_activity = parts[2]] ELSE st[i]]
    ELSE stats

RECURSIVE insert_by_commits(_, _)
insert_by_commits(sorted, x) ==
    IF sorted = <<>> THEN <<x>>
    ELSE IF sorted[1].commits >= x.commits
         THEN <<sorted[1]>> \o insert_by_commits(Tail(sorted), x)
    ELSE <<x>> \o sorted

\* sorted(developer_activity, key=lambda x: x.commits, reverse=True)
RECURSIVE sorted_by_commits(_)
sorted_by_commits(list) ==
    IF list = <<>> THEN <<>>
    ELSE insert_by_commits(sorted_by_commits(SubSeq(list, 1, Len(list) - 1)),
                           list[Len(list)])

\* analyze_developer_activity, given the outputs of its three git commands
analyze_developer_activity(authors_output, refs_output, last_output) ==
    LET stats == set_last_activity(last_output,
                     add_branches(split(refs_output, "\n"),
                         count_authors(split(authors_output, "\n"), <<>>)))
    IN sorted_by_commits([i \in 1..Len(stats) |->
           [author           |-> stats[i].author,
            commits          |-> stats[i].commits,
            branches_created |-> Cardinality(stats[i].branches),
            avg_commit_size  |-> 0,
            last_activity    |-> stats[i].last_activity]])

(* __exit__ *)

\* shutil.rmtree(root): root and everything below it is gone
rmtree(root, disk) ==
    {p \in disk : p # root /\ ~startswith(p, root \o <<"/">>)}

\* __exit__ without the rmtree call
exit_keeps_tree(dir, disk) == disk

\* __exit__: the disk after it
exit_context(dir, disk) ==
    IF dir # None /\ dir \in disk THEN rmtree(dir, disk) ELSE disk

----------------------------------------------------------------------------
(* The run of main() *)

\* command-line arguments: a URL, an existing directory, a remote that is
\* not recognised as a URL
Repositories == {<<"h","t","t","p","s",":","/","/","h","/","r">>, RepoDir, <<"s","s","h",":","/","/","h","/","r">>}

TempDir    == <<"/","t","m","p","/","r","e","p","o","_","a","n","a","l","y","s","i","s","_","0">>
MirrorDir  == path_join(TempDir, <<"r","e","p","o",".","g","i","t">>)
WorkingDir == path_join(TempDir, <<"w","o","r","k","i","n","g">>)

\* the CI indicators found in a checkout: none, the first three, all six
CiChoices == {0, 3, 6}
CiFilesIn(dir, n) == {path_join(dir, ci_cd_files[i]) : i \in 1..n}

\* outputs of `git branch -a --format=...`
BranchListings == {
    Failed,
    Completed(0, <<>>),
    Completed(0, <<"m","a","i","n","|","d","|","a","l","\n">>),
    Completed(0, <<"m","a","s","t","e","r","|","d","|","a","l","\n","o","r","i","g","i","n","/","H","E","A","D","|","d","|","a","l","\n","o","r","i","g","i","n","/","f","e","a","t","/","b","|","e","|","b","o","\n","x","|","y","\n">>) }

\* outputs of `git rev-parse --verify <candidate>`
RevParseRuns == {Failed, Completed(0, <<"1","f","3","a","\n">>)}

\* outputs of `git rev-list --count main..branch`
RevListRuns == {Failed, Completed(0, <<"0","\n">>), Completed(0, <<"1","2","\n">>)}

\* outputs of `git log main..branch --format=%an`
AuthorRuns == {Failed, Completed(0, <<>>), Completed(0, <<"a","l","\n","b","o","\n","a","l","\n">>)}

\* outputs of `git log --oneline --format=%s`
CommitLogRuns == {
    Failed,
    Completed(0, join(ExampleMessages) \o <<"\n">>),
    Completed(0, <<"f","e","a","t",":"," ","a","\n","f","i","x",":"," ","b","\n","M","e","r","g","e"," ","c","\n","d","o","c","s","\n">>) }

\* outputs of the three commands of analyze_developer_activity
AllAuthorRuns == {Failed, Completed(0, <<"a","l","|","x","\n","b","o","|","y","\n","a","l","|","x","\n">>)}
RefRuns       == {Failed, Completed(0, <<"m","a","i","n","|","a","l","\n","f","|","c","y","\n">>)}
LastRuns      == {Failed, Completed(0, <<"a","l","|","d","\n">>)}

Init ==
    /\ pc = "main"
    /\ repository \in Repositories
    /\ repo_path = None
    /\ temp_dir = None
    /\ fs \in {{RepoDir} \cup CiFilesIn(RepoDir, n) : n \in CiChoices}
    /\ git_failed = {}
    /\ candidate_idx = 0
    /\ branches_output = <<>>
    /\ line_idx = 0
    /\ branch_info = <<>>
    /\ main_branch = <<"m","a","i","n">>
    /\ commits_output = <<>>
    /\ commit_patterns = None
    /\ developer_activity = <<>>
    /\ metrics = NoMetrics
    /\ recommendations = None
    /\ raised = "None"
    /\ exit_code = -1
    /\ report = "None"

\* main() up to the with statement: repo_path is None for a URL
Main ==
    /\ pc = "main"
    /\ repo_path' = IF \/ startswith(repository, <<"h","t","t","p",":","/","/">>)
                       \/ startswith(repository, <<"h","t","t","p","s",":","/","/">>)
                       \/ startswith(repository, <<"g","i","t","@">>)
                    THEN None ELSE repository
    /\ pc' = "analyze"
    /\ UNCHANGED <<repository, temp_dir, fs, git_failed, candidate_idx,
                   branches_output, line_idx, branch_info, main_branch,
                   commits_output, commit_patterns, developer_activity, metrics,
                   recommendations, raised, exit_code, report>>

\* analyze(): os.path.exists(self.repo_path) raises TypeError on None
Analyze ==
    /\ pc = "analyze"
    /\ IF repo_path = None
       THEN raised' = "TypeError" /\ pc' = "exit_context"
       ELSE /\ raised' = raised
            /\ pc' = IF repo_path \in fs THEN "analyze_branches"
                     ELSE "clone_repository"
    /\ UNCHANGED <<repository, repo_path, temp_dir, fs, git_failed, candidate_idx,
                   branches_output, line_idx, branch_info, main_branch,
                   commits_output, commit_patterns, developer_activity, metrics,
                   recommendations, exit_code, report>>

\* clone_repository(): mkdtemp, the mirror clone, the working copy; a failed
\* clone calls sys.exit(1)
CloneRepository ==
    /\ pc = "clone_repository"
    /\ temp_dir' = TempDir
    /\ \E outcome \in {"cloned", "mirror_failed", "working_failed"},
          n \in CiChoices :
          IF outcome = "cloned"
          THEN /\ fs' = fs \cup {TempDir, MirrorDir, WorkingDir}
                           \cup CiFilesIn(WorkingDir, n)
               /\ repo_path' = WorkingDir
               /\ raised' = raised
               /\ pc' = "analyze_branches"
          ELSE /\ fs' = fs \cup {TempDir}
                           \cup (IF outcome = "working_failed"
                                 THEN {MirrorDir} ELSE {})
               /\ repo_path' = repo_path
               /\ raised' = "SystemExit"
               /\ pc' = "exit_context"
    /\ UNCHANGED <<repository, git_failed, candidate_idx, branches_output,
                   line_idx, branch_info, main_branch, commits_output,
                   commit_patterns, developer_activity, metrics,
                   recommendations, exit_code, report>>

\* analyze_branches(): the branch listing
ListBranches ==
    /\ pc = "analyze_branches"
    /\ \E run \in BranchListings :
          LET r == get_git_command("branch", run) IN
          /\ git_failed' = git_failed \cup r.printed
          /\ raised' = r.raised
          /\ IF r.raised # "None"
             THEN pc' = "exit_context" /\ branches_output' = branches_output
             ELSE pc' = "detect_main" /\ branches_output' = r.out
    /\ branch_info' = <<>>
    /\ main_branch' = <<"m","a","i","n">>
    /\ candidate_idx' = 1
    /\ UNCHANGED <<repository, repo_path, temp_dir, fs, line_idx, commits_output,
                   commit_patterns, developer_activity, metrics,
                   recommendations, exit_code, report>>

\* analyze_branches(): one iteration of the loop over main_candidates
DetectMain ==
    /\ pc = "detect_main"
    /\ \E run \in RevParseRuns :
          LET r == get_git_command("rev-parse", run) IN
          /\ git_failed' = git_failed \cup r.printed
          /\ raised' = r.raised
          /\ IF r.raised # "None"
             THEN /\ pc' = "exit_context"
                  /\ UNCHANGED <<main_branch, candidate_idx, line_idx>>
             ELSE IF r.out # <<>>
             THEN /\ main_branch' = main_candidates[candidate_idx]
                  /\ pc' = "branch_lines"
                  /\ line_idx' = 1
                  /\ candidate_idx' = candidate_idx
             ELSE IF candidate_idx = Len(main_candidates)
             THEN /\ pc' = "branch_lines"
                  /\ line_idx' = 1
                  /\ UNCHANGED <<main_branch, candidate_idx>>
             ELSE /\ candidate_idx' = candidate_idx + 1
                  /\ pc' = "detect_main"
                  /\ UNCHANGED <<main_branch, line_idx>>
    /\ UNCHANGED <<repository, repo_path, temp_dir, fs, branches_output,
                   branch_info, commits_output, commit_patterns,
                   developer_activity, metrics, recommendations, exit_code,
                   report>>

\* analyze_branches(): one iteration of the loop over the listed lines
BranchLine ==
    /\ pc = "branch_lines"
    /\ LET lines == split(branches_output, "\n")
           line == lines[line_idx]
       IN \E count_run \in RevListRuns, authors_run \in AuthorRuns :
             LET calls == IF line_runs_git(line)
                          THEN <<get_git_command("rev-list", count_run),
                                 get_git_command("log", authors_run)>>
                          ELSE <<>>
                 outs == IF calls = <<>> THEN <<<<>>, <<>>>>
                         ELSE <<calls[1].out, calls[2].out>>
             IN /\ git_failed' = git_failed \cup PrintedBy(calls)
                /\ raised' = FirstRaised(calls)
                /\ IF FirstRaised(calls) # "None"
                   THEN /\ pc' = "exit_context"
                        /\ UNCHANGED <<branch_info, line_idx>>
                   ELSE /\ branch_info' = branch_info
                               \o branch_of_line(line, main_branch, outs[1], outs[2])
                        /\ line_idx' = line_idx + 1
                        /\ pc' = IF line_idx = Len(lines)
                                 THEN "analyze_commit_patterns"
                                 ELSE "branch_lines"
    /\ UNCHANGED <<repository, repo_path, temp_dir, fs, candidate_idx,
                   branches_output, main_branch, commits_output, commit_patterns,
                   developer_activity, metrics, recommendations, exit_code,
                   report>>

\* analyze_commit_patterns()
AnalyzeCommitPatterns ==
    /\ pc = "analyze_commit_patterns"
    /\ \E run \in CommitLogRuns :
          LET r == get_git_command("log", run) IN
          /\ git_failed' = git_failed \cup r.printed
          /\ raised' = r.raised
          /\ IF r.raised # "None"
             THEN /\ pc' = "exit_context"
                  /\ UNCHANGED <<commits_output, commit_patterns>>
             ELSE /\ commits_output' = r.out
                  /\ commit_patterns' = analyze_commit_patterns(r.out)
                  /\ pc' = "analyze_developer_activity"
    /\ UNCHANGED <<repository, repo_path, temp_dir, fs, candidate_idx,
                   branches_output, line_idx, branch_info, main_branch,
                   developer_activity, metrics, recommendations, exit_code,
                   report>>

\* analyze_developer_activity()
AnalyzeDeveloperActivity ==
    /\ pc = "analyze_developer_activity"
    /\ \E a \in AllAuthorRuns, b \in RefRuns, l \in LastRuns :
          LET calls == <<get_git_command("log", a),
                         get_git_command("for-each-ref", b),
                         get_git_command("log", l)>>
          IN /\ git_failed' = git_failed \cup PrintedBy(calls)
             /\ raised' = FirstRaised(calls)
             /\ IF FirstRaised(calls) # "None"
                THEN /\ pc' = "exit_context"
                     /\ UNCHANGED developer_activity
                ELSE /\ developer_activity' =
                            analyze_developer_activity(calls[1].out, calls[2].out,
                                                       calls[3].out)
                     /\ pc' = "calculate_metrics"
    /\ UNCHANGED <<repository, repo_path, temp_dir, fs, candidate_idx,
                   branches_output, line_idx, branch_info, main_branch,
                   commits_output, commit_patterns, metrics, recommendations,
                   exit_code, report>>

\* calculate_metrics() within analyze()
CalculateMetrics ==
    /\ pc = "calculate_metrics"
    /\ metrics' = calculate_metrics(branch_info, commit_patterns, repo_path, fs)
    /\ pc' = "generate_recommendations"
    /\ UNCHANGED <<repository, repo_path, temp_dir, fs, git_failed, candidate_idx,
                   branches_output, line_idx, branch_info, main_branch,
                   commits_output, commit_patterns, developer_activity,
                   recommendations, raised, exit_code, report>>

\* generate_recommendations() within analyze(), then the AnalysisResult is
\* returned to main
GenerateRecommendations ==
    /\ pc = "generate_recommendations"
    /\ LET r == generate_recommendations(branch_info, commit_patterns,
                    metrics.ci_cd_score, metrics.trunk_based_score)
       IN /\ recommendations' = r.value
          /\ raised' = r.raised
    /\ pc' = "exit_context"
    /\ UNCHANGED <<repository, repo_path, temp_dir, fs, git_failed, candidate_idx,
                   branches_output, line_idx, branch_info, main_branch,
                   commits_output, commit_patterns, developer_activity, metrics,
                   exit_code, report>>

\* __exit__ at the end of the with block, on return and on any exception
ExitContext ==
    /\ pc = "exit_context"
    /\ fs' = exit_context(temp_dir, fs)
    /\ pc' = IF raised = "None" THEN "write_report" ELSE "propagate"
    /\ UNCHANGED <<repository, repo_path, temp_dir, git_failed, candidate_idx,
                   branches_output, line_idx, branch_info, main_branch,
                   commits_output, commit_patterns, developer_activity, metrics,
                   recommendations, raised, exit_code, report>>

\* main() after the with block: the report is written and main returns
WriteReport ==
    /\ pc = "write_report"
    /\ \E format \in {"html", "json"} : report' = format
    /\ exit_code' = 0
    /\ pc' = "exited"
    /\ UNCHANGED <<repository, repo_path, temp_dir, fs, git_failed, candidate_idx,
                   branches_output, line_idx, branch_info, main_branch,
                   commits_output, commit_patterns, developer_activity, metrics,
                   recommendations, raised>>

\* SystemExit(1) or an uncaught exception leaves main: exit status 1
Propagate ==
    /\ pc = "propagate"
    /\ exit_code' = 1
    /\ pc' = "exited"
    /\ UNCHANGED <<repository, repo_path, temp_dir, fs, git_failed, candidate_idx,
                   branches_output, line_idx, branch_info, main_branch,
                   commits_output, commit_patterns, developer_activity, metrics,
                   recommendations, raised, report>>

Next ==
    \/ Main
    \/ Analyze
    \/ CloneRepository
    \/ ListBranches
    \/ DetectMain
    \/ BranchLine
    \/ AnalyzeCommitPatterns
    \/ AnalyzeDeveloperActivity
    \/ CalculateMetrics
    \/ GenerateRecommendations
    \/ ExitContext
    \/ WriteReport
    \/ Propagate

Spec == Init /\ [][Next]_vars

----------------------------------------------------------------------------
(* Claims about generate_recommendations called on its own (SpecRecs) *)

\* C1: when the commit patterns have a total count of 0, the call completes
\* without a division-by-zero error and returns a list that does not contain
\* the conventional-commit-messages recommendation.
C1_ZeroCommitsSkipsRule ==
    (pc = "returned" /\ total_count(commit_patterns) = 0)
    => /\ raised = "None"
       /\ recommendations # None
       /\ \A i \in 1..Len(recommendations) :
              recommendations[i] # RecConventional[1]

\* C2: for every input the call returns a list whose last three entries are
\* the three unconditional recommendations, in that order.
C2_AlwaysEndsWithUnconditional ==
    pc = "returned"
    => /\ raised = "None"
       /\ recommendations # None
       /\ Len(recommendations) >= 3
       /\ SubSeq(recommendations, Len(recommendations) - 2, Len(recommendations))
          = RecAlways

\* the number of non-main branches with more than n commits
NonMainLonger(n) ==
    Cardinality({i \in 1..Len(branch_info) :
                    ~branch_info[i].is_main /\ branch_info[i].commit_count > n})

\* the number of commits in the patterns whose key is in K
CommitsIn(K) ==
    SumSeq([i \in 1..Len(commit_patterns) |->
               IF commit_patterns[i].pattern \in K
               THEN commit_patterns[i].count ELSE 0])

AllCommits == CommitsIn(Keys)

\* C10: with at least one commit the list is, in this order: the three
\* trunk-based recommendations iff trunk-based score < 50, the three CI/CD
\* recommendations iff CI/CD score < 60, the conventional-commit
\* recommendation iff fewer than 0.7 of the commits are in feat:, fix:,
\* chore:, docs:, test:, refactor:, the branch-cleanup recommendation iff more
\* than 3 non-main branches have more than 20 commits, then the three
\* unconditional recommendations.
C10_RecommendationOrder ==
    (pc = "returned" /\ AllCommits > 0)
    => /\ raised = "None"
       /\ recommendations =
             (IF metrics.trunk_based_score < 50 THEN RecTrunk ELSE <<>>)
             \o (IF metrics.ci_cd_score < 60 THEN RecCiCd ELSE <<>>)
             \o (IF 10 * CommitsIn({k_feat, k_fix, k_chore, k_docs, k_test, k_refactor})
                    < 7 * AllCommits
                 THEN RecConventional ELSE <<>>)
             \o (IF NonMainLonger(20) > 3 THEN RecCleanup ELSE <<>>)
             \o RecAlways

\* all four rules fire in one call
C10_Witness ==
    /\ pc = "returned"
    /\ AllCommits > 0
    /\ metrics.trunk_based_score < 50
    /\ metrics.ci_cd_score < 60
    /\ NonMainLonger(20) > 3
    /\ recommendations # None
    /\ Len(recommendations) = 11

----------------------------------------------------------------------------
(* Claims about calculate_metrics called on its own (SpecMetrics) *)

\* the bonus for n long-lived branches
BonusFor(n) ==
    IF n <= 2 THEN 30 ELSE IF n <= 5 THEN 20 ELSE IF n <= 10 THEN 10 ELSE 0

\* merge and hotfix frequency as the claims define them; 0 without commits
MergeShare  == frequency(CommitsIn({k_merge}), AllCommits)
HotfixShare == frequency(CommitsIn({k_hotfix}), AllCommits)

\* the merge, hotfix and naming bonuses, each as a sum of steps
MergeBonus ==
    (IF Gt(MergeShare, 5) THEN 10 ELSE 0) + (IF Gt(MergeShare, 10) THEN 5 ELSE 0)
    + (IF Gt(MergeShare, 20) THEN 10 ELSE 0)

HotfixBonus ==
    (IF Lt(HotfixShare, 20) THEN 10 ELSE 0) + (IF Lt(HotfixShare, 10) THEN 5 ELSE 0)
    + (IF Lt(HotfixShare, 5) THEN 10 ELSE 0)

NamingBonus ==
    IF \E i \in 1..Len(branch_info) :
          \/ startswith(branch_info[i].name, <<"f","e","a","t","u","r","e","/">>)
          \/ startswith(branch_info[i].name, <<"f","e","a","t","/">>)
    THEN 20 ELSE 0

\* C4: the long-lived-branch bonus counts only non-main branches with more
\* than 10 commits, and is 30, 20, 10 or 0 for n <= 2, n <= 5, n <= 10, n > 10.
C4_LongLivedCountsNonMainOnly ==
    pc = "returned"
    => metrics.trunk_based_score
       = BonusFor(NonMainLonger(10)) + merge_factor(metrics.merge_frequency)
         + hotfix_factor(metrics.hotfix_frequency) + naming_factor(branch_info)

\* C5: the CI/CD score never exceeds 100, whatever subset of the six
\* indicators is present.
C5_CiCdScoreAtMost100 ==
    pc = "returned" => metrics.ci_cd_score <= 100

\* C9: given the long-lived-branch bonus, the trunk-based score is that bonus
\* plus the merge bonus (25, 15, 10, 0 for > 20%, > 10%, > 5%, else), the
\* hotfix bonus (25, 15, 10, 0 for < 5%, < 10%, < 20%, else) and the naming
\* bonus (20 if a branch name starts with feature/ or feat/); the frequencies
\* are the merge: and hotfix: counts over the total, times 100; no long-lived
\* branch, 0% merge, 25% hotfix and no feature branch score 30.
C9_TrunkScoreIsSumOfBonuses ==
    pc = "returned"
    => /\ metrics.merge_frequency[1] * MergeShare[2]
          = MergeShare[1] * metrics.merge_frequency[2]
       /\ metrics.hotfix_frequency[1] * HotfixShare[2]
          = HotfixShare[1] * metrics.hotfix_frequency[2]
       /\ metrics.trunk_based_score
          = long_lived_factor(branch_info) + MergeBonus + HotfixBonus + NamingBonus
       /\ (/\ AllCommits > 0
           /\ 5 * CommitsIn({k_merge}) = AllCommits
           /\ 5 * CommitsIn({k_hotfix}) = AllCommits)
          => metrics.trunk_based_score
             = long_lived_factor(branch_info) + 15 + 0 + NamingBonus
       /\ (/\ count_longer(branch_info, 10) = 0
           /\ CommitsIn({k_merge}) = 0
           /\ AllCommits > 0
           /\ 4 * CommitsIn({k_hotfix}) = AllCommits
           /\ NamingBonus = 0)
          => metrics.trunk_based_score = 30

\* the example: no long-lived branch, 0% merge, 25% hotfix, no feature branch
C9_Witness ==
    /\ pc = "returned"
    /\ count_longer(branch_info, 10) = 0
    /\ CommitsIn({k_merge}) = 0
    /\ AllCommits > 0
    /\ 4 * CommitsIn({k_hotfix}) = AllCommits
    /\ NamingBonus = 0
    /\ metrics.trunk_based_score = 30

----------------------------------------------------------------------------
(* Claims about analyze_commit_patterns called on its own (SpecClassify) *)

\* the tests of the classifier in their fixed order
Rules == <<
    [prefix |-> TRUE,  text |-> s_feat,      key |-> k_feat],
    [prefix |-> TRUE,  text |-> s_fix,       key |-> k_fix],
    [prefix |-> TRUE,  text |-> s_hotfix,    key |-> k_hotfix],
    [prefix |-> TRUE,  text |-> s_merge,     key |-> k_merge],
    [prefix |-> TRUE,  text |-> s_chore,     key |-> k_chore],
    [prefix |-> TRUE,  text |-> s_docs,      key |-> k_docs],
    [prefix |-> TRUE,  text |-> s_test,      key |-> k_test],
    [prefix |-> TRUE,  text |-> s_refactor,  key |-> k_refactor],
    [prefix |-> FALSE, text |-> s_wip,       key |-> k_WIP],
    [prefix |-> FALSE, text |-> s_temp,      key |-> k_temporary],
    [prefix |-> FALSE, text |-> s_temporary, key |-> k_temporary] >>

RuleMatches(r, msg) ==
    IF r.prefix THEN startswith(lower(msg), r.text) ELSE contains(lower(msg), r.text)

\* the key of the first rule that matches, other if none does
FirstMatch(msg) ==
    LET hits == {i \in 1..Len(Rules) : RuleMatches(Rules[i], msg)} IN
    IF hits = {} THEN k_other
    ELSE Rules[CHOOSE i \in hits : \A j \in hits : i <= j].key

\* the non-empty subject lines of the log output
SubjectLines ==
    SelectSeq(split(commits_output, "\n"), LAMBDA l : l # <<>>)

\* the count the returned list gives for key k, 0 if k is absent
CountOf(k) ==
    SumSeq([i \in 1..Len(commit_patterns) |->
               IF commit_patterns[i].pattern = k
               THEN commit_patterns[i].count ELSE 0])

\* C8: every non-empty subject line is counted in exactly one category, the
\* first that matches in the fixed order; the counts sum to the number of
\* non-empty lines; the five example messages give feat:, fix:, merge:,
\* hotfix: and other a count of 1 each.
C8_FirstMatchClassification ==
    pc = "returned"
    => /\ \A k \in Keys :
              CountOf(k) = Cardinality({i \in 1..Len(SubjectLines) :
                                           FirstMatch(SubjectLines[i]) = k})
       /\ \A i \in 1..Len(commit_patterns) :
              /\ commit_patterns[i].pattern \in Keys
              /\ commit_patterns[i].count > 0
              /\ \A j \in 1..Len(commit_patterns) :
                     commit_patterns[i].pattern = commit_patterns[j].pattern => i = j
       /\ SumSeq([i \in 1..Len(commit_patterns) |-> commit_patterns[i].count])
          = Len(SubjectLines)
       /\ commits_output = join(ExampleMessages)
          => /\ Len(commit_patterns) = 5
             /\ \A k \in {k_feat, k_fix, k_merge, k_hotfix, k_other} : CountOf(k) = 1

\* the five example messages have been classified
C8_Witness ==
    /\ pc = "returned"
    /\ commits_output = join(ExampleMessages)
    /\ CountOf(k_hotfix) = 1

----------------------------------------------------------------------------
(* Claims about the run of main() (Spec) *)

\* the run has left the with block of main
LeftScope == pc \in {"write_report", "propagate", "exited"}

C6_TempDirRemoved ==
    (LeftScope /\ temp_dir # None)
    => \A p \in fs : p # temp_dir /\ ~startswith(p, temp_dir)

\* a cloned run that failed in a later step of analyze has left the scope
C6_Witness ==
    /\ pc = "exited"
    /\ temp_dir # None
    /\ repo_path = WorkingDir
    /\ raised = "ZeroDivisionError"

\* C7: the exit code is 1 if and only if the clone fails; every other run
\* exits with code 0.
C7_ExitOneIffCloneFails ==
    pc = "exited" => (exit_code = 1 <=> raised = "SystemExit")

----------------------------------------------------------------------------
(* Claims about the classifier and the metrics calculator on no commits
   (SpecPatternsOrMetrics) *)

\* the value of a fraction is 0 and it is defined (no quotient by 0)
IsZero(f) == f[2] > 0 /\ f[1] = 0

\* C11: for an empty commit message list analyze_commit_patterns returns no
\* categories, and calculate_metrics returns merge frequency 0 and hotfix
\* frequency 0, with no division by zero and no error value.
C11_NoCommitsGiveZeroFrequencies ==
    /\ (pc = "returned" /\ metrics = NoMetrics /\ SubjectLines = <<>>)
       => (raised = "None" /\ commit_patterns = <<>>)
    /\ (pc = "returned" /\ metrics # NoMetrics /\ commit_patterns = <<>>)
       => /\ raised = "None"
          /\ IsZero(metrics.merge_frequency)
          /\ IsZero(metrics.hotfix_frequency)

\* calculate_metrics has returned for an empty list of commit patterns
C11_Witness ==
    /\ pc = "returned"
    /\ metrics # NoMetrics
    /\ commit_patterns = <<>>
    /\ branch_info # <<>>
    /\ IsZero(metrics.merge_frequency)

----------------------------------------------------------------------------
(* Claims about the percentages of analyze_commit_patterns (SpecClassify) *)

\* the sum of a list of fractions, as a fraction
RECURSIVE FractionSum(_)
FractionSum(fs_) ==
    IF fs_ = <<>> THEN <<0, 1>>
    ELSE LET rest == FractionSum(Tail(fs_)) IN
         <<fs_[1][1] * rest[2] + rest[1] * fs_[1][2], fs_[1][2] * rest[2]>>

\* C12: for a non-empty commit message list the percentages of the returned
\* entries sum to 100; each percentage is count / total * 100, where total is
\* the number of classified messages, and the counts sum to that total.
C12_PercentagesSumTo100 ==
    (pc = "returned" /\ SubjectLines # <<>>)
    => LET total == Len(SubjectLines)
           sum == FractionSum([i \in 1..Len(commit_patterns) |->
                                  commit_patterns[i].percentage])
       IN /\ \A i \in 1..Len(commit_patterns) :
                 /\ commit_patterns[i].percentage[2] > 0
                 /\ commit_patterns[i].percentage[1] * total
                    = commit_patterns[i].count * 100 * commit_patterns[i].percentage[2]
          /\ SumSeq([i \in 1..Len(commit_patterns) |-> commit_patterns[i].count])
             = total
          /\ sum[2] > 0
          /\ sum[1] = 100 * sum[2]

\* two messages of different categories have been classified: 50% each
C12_Witness ==
    /\ pc = "returned"
    /\ Len(SubjectLines) = 2
    /\ Len(commit_patterns) = 2
    /\ commit_patterns[1].percentage = <<100, 2>>
    /\ commit_patterns[2].percentage = <<100, 2>>

----------------------------------------------------------------------------
(* Claims about the CI/CD score of calculate_metrics (SpecMetrics) *)

\* the indicators present in the repository root
IndicatorsPresent ==
    {i \in 1..Len(ci_cd_files) : (repo_path \o <<"/">> \o ci_cd_files[i]) \in fs}

\* C13: the CI/CD score is 20 times the number of the six known indicators
\* present in the repository root, whatever the branches, the commit patterns
\* and the other paths on disk; with exactly 3 of the 6 present it is 60.
C13_CiCdScoreIs20PerIndicator ==
    pc = "returned"
    => /\ Len(ci_cd_files) = 6
       /\ metrics.ci_cd_score = 20 * Cardinality(IndicatorsPresent)
       /\ Cardinality(IndicatorsPresent) = 3 => metrics.ci_cd_score = 60

\* exactly 3 of the 6 indicators are present, next to other paths, and some
\* branch and commit pattern is given
C13_Witness ==
    /\ pc = "returned"
    /\ Cardinality(IndicatorsPresent) = 3
    /\ OtherPaths \subseteq fs
    /\ commit_patterns # <<>>
    /\ metrics.ci_cd_score = 60

----------------------------------------------------------------------------
(* Claims about the commit counts of a run of main() (Spec) *)

====
